---------------------------- MODULE Spec2Model ----------------------------
(***************************************************************************)
(* Model of the curriculum crate (src/src/lib.rs): CVDuration arithmetic,  *)
(* CVEntry durations, skill extraction and aggregation, and the LaTeX      *)
(* rendering of an entry tree.                                             *)
(*                                                                         *)
(* The crate is a set of pure functions over an immutable, deserialized    *)
(* Curriculum.  Each specification below draws the inputs of a group of    *)
(* functions from bounded sets in its Init and has one action per          *)
(* function, which stores the value the function returns.                  *)
(***************************************************************************)
EXTENDS Integers, Sequences, FiniteSets, TLC

(***************************************************************************)
(* Bounds of the model.                                                    *)
(***************************************************************************)
\* largest year component of a CVDuration operand
MaxYear == 3
\* largest month component of a CVDuration operand (above 11: unnormalized)
MaxMonth == 13

\* largest number of entries (nodes) of an entry tree
MaxNodes == 4
\* number of skill names in the skill sets given to add_skillsets
NumSkills == 2
\* largest duration, in days, in the skill sets given to add_skillsets
MaxDays == 1
\* largest number of experiences of a Curriculum
MaxExperiences == 3
\* largest number of education entries, of experiences and of languages of
\* a rendered curriculum
MaxItems == 2

VARIABLES
    da, db, dc,     \* CVDuration operands
    dop,            \* last CVDuration operation called: "none", "add", "round"
    dres            \* the CVDuration it returned

dvars == <<da, db, dc, dop, dres>>

VARIABLES
    now,            \* the reading of Utc::now(), in seconds since the epoch
    entry,          \* the CVEntry (with its subentries) the methods are called on
    eop,            \* last CVEntry method called, "none" before any call
    tex,            \* String returned by to_latex
    elapsed,        \* Option<CVDuration> returned by cv_duration
    skills,         \* HashMap returned by extract_skills
    subtree         \* HashMap returned by extract_subentries_skills

evars == <<entry, eop, tex, elapsed, skills, subtree>>

VARIABLES
    acc_in,         \* the skill set acc refers to when add_skillsets is called
    other_in,         \* the skill set moved into add_skillsets
    acc_out,          \* the skill set acc refers to
    merged          \* TRUE once add_skillsets has returned

svars == <<acc_in, other_in, acc_out, merged>>

VARIABLES
    cv,             \* the Curriculum
    cop,            \* last Curriculum method called, "none" before any call
    got_skills,     \* HashMap returned by get_skills
    doc             \* String returned by to_latex

cvars == <<cv, cop, got_skills, doc>>

vars == <<dvars, now, evars, svars, cvars>>

(***************************************************************************)
(* CVDuration (lib.rs 424-495)                                             *)
(***************************************************************************)
\* struct CVDuration { year: u32, month: u32 }
CVDuration(y, m) == [year |-> y, month |-> m]

\* #[derive(Default)]
CVDuration_default == CVDuration(0, 0)

\* CVDuration::round with the tie (6 months) rounded down
CVDuration_round_tie_down(self) ==
    IF self.year = 0 /\ self.month <= 10
    THEN self
    ELSE CVDuration((self.year * 12 + self.month + 5) \div 12, 0)

\* CVDuration::round
CVDuration_round(self) ==
    IF self.year = 0 /\ self.month <= 10
    THEN self
    ELSE CVDuration((self.year * 12 + self.month + 6) \div 12, 0)

\* Add for CVDuration carrying at most one year
CVDuration_add_single_carry(self, other) ==
    LET m == self.month + other.month
        y == self.year + other.year
    IN  IF m < 12
        THEN CVDuration(y, m)
        ELSE CVDuration(y + 1, m - 12)

\* Add for CVDuration carrying only above 12 months
CVDuration_add_late_carry(self, other) ==
    LET m == self.month + other.month
        y == self.year + other.year
    IN  IF m <= 12
        THEN CVDuration(y, m)
        ELSE CVDuration(y + (m \div 12), m % 12)

\* impl Add for CVDuration
CVDuration_add(self, other) ==
    LET m == self.month + other.month
        y == self.year + other.year
    IN  IF m < 12
        THEN CVDuration(y, m)
        ELSE CVDuration(y + (m \div 12), m % 12)

(***************************************************************************)
(* Option<T>: None is the empty sequence, Some(x) the sequence <<x>>       *)
(***************************************************************************)
None == <<>>
Some(x) == <<x>>
IsSome(o) == Len(o) > 0
Unwrap(o) == o[1]
UnwrapOr(o, dflt) == IF IsSome(o) THEN o[1] ELSE dflt

\* the empty HashMap
EmptyMap == <<>>

(***************************************************************************)
(* Strings are sequences of characters.  The literals of the format        *)
(* strings of lib.rs follow.                                               *)
(***************************************************************************)
\* the keys EntryDescription::extract_skills inserts (lib.rs 198-203)
CAT_PROGRAMMING == <<"p", "r", "o", "g", "r", "a", "m", "m", "i", "n", "g", " ", "l", "a", "n", "g", "u", "a", "g", "e", "s">>
CAT_VERSION == <<"v", "e", "r", "s", "i", "o", "n", " ", "c", "o", "n", "t", "r", "o", "l">>
CAT_DATABASE == <<"d", "a", "t", "a", "b", "a", "s", "e">>
CAT_CLOUD == <<"c", "l", "o", "u", "d", " ", "c", "o", "m", "p", "u", "t", "i", "n", "g">>
CAT_CI == <<"C", "I", "/", "C", "D">>
CAT_OTHER == <<"o", "t", "h", "e", "r">>
\* the first element of SKILL_CATEGORIES as lib.rs 11 spells it
CAT_PRORGAMMING == <<"p", "r", "o", "r", "g", "a", "m", "m", "i", "n", "g", " ", "l", "a", "n", "g", "u", "a", "g", "e", "s">>

\* const SKILL_CATEGORIES (lib.rs 10-17)
SKILL_CATEGORIES ==
    <<CAT_PRORGAMMING, CAT_VERSION, CAT_DATABASE, CAT_CLOUD, CAT_CI, CAT_OTHER>>

LIT_hspace == <<"\\", "h", "s", "p", "a", "c", "e", "*", "{", "-">>
LIT_ex == <<"e", "x", "}">>
LIT_cventry == <<"\\", "c", "v", "e", "n", "t", "r", "y", "{">>
LIT_sep == <<"}", "{">>
LIT_open_body == <<"}", "{", "%", "\n">>
LIT_close_body == <<"%", "\n", "}">>
LIT_begin_description == <<"\\", "b", "e", "g", "i", "n", "{", "d", "e", "s", "c", "r", "i", "p", "t", "i", "o", "n", "}">>
LIT_end_description == <<"\\", "e", "n", "d", "{", "d", "e", "s", "c", "r", "i", "p", "t", "i", "o", "n", "}", "\n">>
LIT_item == <<"\\", "i", "t", "e", "m", " ", "[">>
LIT_item_close == <<"]", " ">>
LIT_comma == <<",", " ">>
LIT_dashes == <<"-", "-">>
LIT_percent == <<"%">>
LIT_newline == <<"\n">>
LIT_half == <<".", "5">>
LIT_minus == <<"-">>

\* the literals of Curriculum::to_latex, CVLanguage::to_latex and
\* PersonalData::to_latex
LIT_begin_document == <<"\n", "\\", "b", "e", "g", "i", "n", "{", "d", "o", "c", "u", "m", "e", "n", "t", "}", "\n">>
LIT_maketitle == <<"\\", "m", "a", "k", "e", "t", "i", "t", "l", "e">>
LIT_section_education == <<"\\", "s", "e", "c", "t", "i", "o", "n", "{", "E", "d", "u", "c", "a", "t", "i", "o", "n", "}">>
LIT_section_experience == <<"\\", "s", "e", "c", "t", "i", "o", "n", "{", "P", "r", "o", "f", "f", "e", "s", "i", "o", "n", "a", "l", " ", "e", "x", "p", "e", "r", "i", "e", "n", "c", "e", "}">>
LIT_section_languages == <<"\\", "s", "e", "c", "t", "i", "o", "n", "{", "L", "a", "n", "g", "u", "a", "g", "e", "s", "}">>
LIT_end_document == <<"\\", "e", "n", "d", "{", "d", "o", "c", "u", "m", "e", "n", "t", "}">>
LIT_cvlanguage == <<"\\", "c", "v", "l", "a", "n", "g", "u", "a", "g", "e", "{">>
LIT_close == <<"}">>
LIT_personal_data == <<"%", " ", "p", "e", "r", "s", "o", "n", "a", "l", " ", "d", "a", "t", "a">>
LIT_firstname == <<"\\", "f", "i", "r", "s", "t", "n", "a", "m", "e", "{", "\\", "L", "A", "R", "G", "E", " ">>
LIT_familyname == <<"\\", "f", "a", "m", "i", "l", "y", "n", "a", "m", "e", "{", "\\", "L", "A", "R", "G", "E", " ">>
LIT_familyname_empty == <<"\\", "f", "a", "m", "i", "l", "y", "n", "a", "m", "e", "{", "{", "}", "}">>
LIT_title == <<"\\", "t", "i", "t", "l", "e", "{">>
LIT_mobile == <<"\\", "m", "o", "b", "i", "l", "e", "{">>
LIT_email == <<"\\", "e", "m", "a", "i", "l", "{">>
LIT_social_github == <<"\\", "s", "o", "c", "i", "a", "l", "[", "g", "i", "t", "h", "u", "b", "]", "{">>
LIT_social_gitlab == <<"\\", "s", "o", "c", "i", "a", "l", "[", "g", "i", "t", "l", "a", "b", "]", "{">>
LIT_social_linkedin == <<"\\", "s", "o", "c", "i", "a", "l", "[", "l", "i", "n", "k", "e", "d", "i", "n", "]", "{">>
LIT_social_twitter == <<"\\", "s", "o", "c", "i", "a", "l", "[", "t", "w", "i", "t", "t", "e", "r", "]", "{">>
LIT_extrainfo == <<"\\", "e", "x", "t", "r", "a", "i", "n", "f", "o", "{", "\\", "h", "o", "m", "e", "p", "a", "g", "e", "s", "y", "m", "b", "o", "l", " ">>
LIT_url == <<" ", "\\", "u", "r", "l", "{">>
LIT_close2 == <<"}", "}">>

\* the static preamble, include_str!("../data/preambule.tex")
PREAMBULE == <<"\\", "d", "o", "c", "u", "m", "e", "n", "t", "c", "l", "a", "s", "s", "{", "m", "o", "d", "e", "r", "n", "c", "v", "}", "\n">>

\* [String]::join(sep)
RECURSIVE Join(_, _)
Join(strs, sep) ==
    IF strs = <<>> THEN <<>>
    ELSE IF Len(strs) = 1 THEN strs[1]
    ELSE strs[1] \o sep \o Join(Tail(strs), sep)

\* char::is_whitespace on the characters of the model
IsWhitespace(c) == c \in {" ", "\n", "\t", "\r"}

RECURSIVE trim_start(_)
trim_start(s) ==
    IF s # <<>> /\ IsWhitespace(Head(s)) THEN trim_start(Tail(s)) ELSE s

RECURSIVE trim_end(_)
trim_end(s) ==
    IF s # <<>> /\ IsWhitespace(s[Len(s)])
    THEN trim_end(SubSeq(s, 1, Len(s) - 1))
    ELSE s

\* str::trim
trim(s) == trim_end(trim_start(s))

\* Display of a non-negative integer
RECURSIVE Decimal(_)
Decimal(n) ==
    LET digit == <<"0", "1", "2", "3", "4", "5", "6", "7", "8", "9">>[(n % 10) + 1]
    IN  IF n < 10 THEN <<digit>> ELSE Decimal(n \div 10) \o <<digit>>

\* Display of the f32 value 21.5 - margin (lib.rs 63); the value always has
\* fractional part .5 and is negative from margin = 22 on
FormatMargin(margin) ==
    IF margin <= 21
    THEN Decimal(21 - margin) \o LIT_half
    ELSE LIT_minus \o Decimal(margin - 22) \o LIT_half

\* number of occurrences of character c in string s
CountChar(s, c) == Cardinality({ i \in 1..Len(s) : s[i] = c })

(***************************************************************************)
(* chrono: DateTime<Utc> is a number of seconds since 1970-01-01T00:00:00, *)
(* Duration a signed number of seconds.                                    *)
(***************************************************************************)
SecondsPerDay == 86400

IsLeap(y) == (y % 4 = 0 /\ y % 100 # 0) \/ y % 400 = 0

DaysInMonth(y, m) ==
    IF m = 2 THEN (IF IsLeap(y) THEN 29 ELSE 28)
    ELSE IF m \in {4, 6, 9, 11} THEN 30 ELSE 31

RECURSIVE DaysBeforeMonth(_, _)
DaysBeforeMonth(y, m) ==
    IF m = 1 THEN 0 ELSE DaysBeforeMonth(y, m - 1) + DaysInMonth(y, m - 1)

\* leap years in 1..y-1
LeapsBefore(y) == ((y - 1) \div 4) - ((y - 1) \div 100) + ((y - 1) \div 400)

\* days from 1970-01-01 to y-m-d
DaysFromEpoch(y, m, d) ==
    365 * (y - 1970) + (LeapsBefore(y) - LeapsBefore(1970))
        + DaysBeforeMonth(y, m) + (d - 1)

\* Utc.with_ymd_and_hms(y, m, d, h, min, s)
with_ymd_and_hms(y, m, d, h, min, sec) ==
    DaysFromEpoch(y, m, d) * SecondsPerDay + h * 3600 + min * 60 + sec

\* cv_date::deserialize of an optional "%Y-%m" string, given as the pair
\* <<year, month>> of its parsed parts: the first day of the month, midnight
cv_date_deserialize(s) ==
    IF IsSome(s)
    THEN Some(with_ymd_and_hms(Unwrap(s)[1], Unwrap(s)[2], 1, 0, 0, 0))
    ELSE None

\* Duration::num_days: whole days, truncated toward zero
num_days(duration) ==
    IF duration >= 0
    THEN duration \div SecondsPerDay
    ELSE -((-duration) \div SecondsPerDay)

\* (n as u32) / k and (n as u32) % k for an i64 n with -2^31 < n < 2^31:
\* a negative n is cast to 2^32 + n, and 2^32 = 4 * 2^30
U32Div(n, k) ==
    IF n >= 0 THEN n \div k
    ELSE 4 * ((2^30) \div k) + ((4 * ((2^30) % k) + n) \div k)

U32Mod(n, k) ==
    IF n >= 0 THEN n % k
    ELSE (4 * ((2^30) % k) + n) % k

(***************************************************************************)
(* EntryDescription (lib.rs 173-224)                                       *)
(***************************************************************************)
EntryDescription(context, programming, version, database, cloud, ci, other) ==
    [context |-> context, programming |-> programming, version |-> version,
     database |-> database, cloud |-> cloud, ci |-> ci, other |-> other]

\* EntryDescription::extract_skills without the retain of line 204
EntryDescription_extract_skills_no_retain(self) ==
    (CAT_PROGRAMMING :> self.programming) @@ (CAT_VERSION :> self.version)
        @@ (CAT_DATABASE :> self.database) @@ (CAT_CLOUD :> self.cloud)
        @@ (CAT_CI :> self.ci) @@ (CAT_OTHER :> self.other)

\* EntryDescription::extract_skills
EntryDescription_extract_skills(self) ==
    LET inserted ==
            (CAT_PROGRAMMING :> self.programming) @@ (CAT_VERSION :> self.version)
                @@ (CAT_DATABASE :> self.database) @@ (CAT_CLOUD :> self.cloud)
                @@ (CAT_CI :> self.ci) @@ (CAT_OTHER :> self.other)
        retained == { k \in DOMAIN inserted : inserted[k] # <<>> }
    IN  [k \in retained |-> inserted[k]]

\* the \item lines of EntryDescription::to_latex for SKILL_CATEGORIES[i..]
RECURSIVE ItemLines(_, _)
ItemLines(skillmap, i) ==
    IF i > Len(SKILL_CATEGORIES) THEN <<>>
    ELSE LET name == SKILL_CATEGORIES[i]
         IN  (IF name \in DOMAIN skillmap
              THEN << LIT_item \o name \o LIT_item_close
                        \o Join(skillmap[name], LIT_comma) >>
              ELSE <<>>)
             \o ItemLines(skillmap, i + 1)

\* EntryDescription::to_latex
EntryDescription_to_latex(self) ==
    LET skillmap == EntryDescription_extract_skills(self)
        lines == <<LIT_percent, self.context>>
                 \o (IF DOMAIN skillmap # {}
                     THEN <<LIT_begin_description>> \o ItemLines(skillmap, 1)
                            \o <<LIT_end_description>>
                     ELSE <<>>)
    IN  Join(lines, LIT_newline)

(***************************************************************************)
(* CVEntry (lib.rs 28-152)                                                 *)
(***************************************************************************)
CVEntry(beginning, end, degree, institution, city, grade, description, subentries) ==
    [beginning |-> beginning, end |-> end, degree |-> degree,
     institution |-> institution, city |-> city, grade |-> grade,
     description |-> description, subentries |-> subentries]

\* the year of the date days days after 1970-01-01, searched upward from y
RECURSIVE YearFrom(_, _)
YearFrom(days, y) ==
    IF DaysFromEpoch(y + 1, 1, 1) <= days THEN YearFrom(days, y + 1) ELSE y

\* DateTime::format("%Y"): the calendar year of the instant, in decimal
\* (four digits for the years 1000..9999)
FormatYear(t) ==
    LET days == t \div SecondsPerDay
        low  == IF days >= 0 THEN 1970 + (days \div 366) ELSE 1970 + (days \div 365)
    IN  Decimal(YearFrom(days, low))

\* CVEntry::get_dates
CVEntry_get_dates(self) ==
    LET dates ==
            (IF IsSome(self.beginning) THEN <<FormatYear(Unwrap(self.beginning))>> ELSE <<>>)
            \o (IF IsSome(self.end) THEN <<FormatYear(Unwrap(self.end))>> ELSE <<>>)
    IN  Join(dates, LIT_dashes)

\* Iterator::min in place of max over the lengths of the date labels
MaxDateLen_min(subentries) ==
    IF subentries = <<>> THEN None
    ELSE LET lens == { Len(Join(
                         (IF IsSome(subentries[i].beginning)
                          THEN <<FormatYear(Unwrap(subentries[i].beginning))>> ELSE <<>>)
                         \o (IF IsSome(subentries[i].end)
                             THEN <<FormatYear(Unwrap(subentries[i].end))>> ELSE <<>>),
                         LIT_dashes)) : i \in 1..Len(subentries) }
         IN  Some(CHOOSE l \in lens : \A k \in lens : l <= k)

\* Iterator::max over the lengths of the date labels of a list of entries
MaxDateLen(subentries) ==
    IF subentries = <<>> THEN None
    ELSE LET lens == { Len(CVEntry_get_dates(subentries[i])) : i \in 1..Len(subentries) }
         IN  Some(CHOOSE l \in lens : \A k \in lens : k <= l)

\* CVEntry::to_latex; SubentriesLatex is its loop over subentries[i..]
RECURSIVE CVEntry_to_latex(_)
RECURSIVE SubentriesLatex(_, _, _)

\* the loop over subentries stopping before the last subentry
RECURSIVE SubentriesLatex_skip_last(_, _, _)
SubentriesLatex_skip_last(subentries, i, max_date_len) ==
    IF i >= Len(subentries) THEN <<>>
    ELSE LIT_newline
         \o (IF IsSome(max_date_len)
             THEN LIT_hspace \o FormatMargin(Unwrap(max_date_len)) \o LIT_ex
             ELSE <<>>)
         \o CVEntry_to_latex(subentries[i])
         \o SubentriesLatex_skip_last(subentries, i + 1, max_date_len)

SubentriesLatex(subentries, i, max_date_len) ==
    IF i > Len(subentries) THEN <<>>
    ELSE LIT_newline
         \o (IF IsSome(max_date_len)
             THEN LIT_hspace \o FormatMargin(Unwrap(max_date_len)) \o LIT_ex
             ELSE <<>>)
         \o CVEntry_to_latex(subentries[i])
         \o SubentriesLatex(subentries, i + 1, max_date_len)

CVEntry_to_latex(self) ==
    LET descr0 == IF IsSome(self.description)
                  THEN EntryDescription_to_latex(Unwrap(self.description))
                  ELSE <<>>
        max_date_len == MaxDateLen(self.subentries)
        descr == descr0 \o SubentriesLatex(self.subentries, 1, max_date_len)
    IN  LIT_cventry \o CVEntry_get_dates(self)
        \o LIT_sep \o self.degree
        \o LIT_sep \o self.institution
        \o LIT_sep \o UnwrapOr(self.city, <<>>)
        \o LIT_sep \o UnwrapOr(self.grade, <<>>)
        \o LIT_open_body \o trim(descr) \o LIT_close_body

\* CVEntry::extract_skills
CVEntry_extract_skills(self) ==
    IF IsSome(self.description)
    THEN EntryDescription_extract_skills(Unwrap(self.description))
    ELSE EmptyMap

\* CVEntry::duration, with the reading t of Utc::now()
CVEntry_duration(self, t) ==
    IF IsSome(self.beginning)
    THEN IF IsSome(self.end)
         THEN Some(Unwrap(self.end) - Unwrap(self.beginning))
         ELSE Some(t - Unwrap(self.beginning))
    ELSE None

\* CVEntry::cv_duration with a month of 31 days
CVEntry_cv_duration_month31(self, t) ==
    LET d == CVEntry_duration(self, t)
    IN  IF IsSome(d)
        THEN LET days == num_days(Unwrap(d))
                 year == U32Div(days, 365)
                 remaining_days == U32Mod(days, 365)
                 month == (remaining_days + 15) \div 31
             IN  Some(CVDuration(year, month))
        ELSE None

\* CVEntry::cv_duration
CVEntry_cv_duration(self, t) ==
    LET d == CVEntry_duration(self, t)
    IN  IF IsSome(d)
        THEN LET days == num_days(Unwrap(d))
                 year == U32Div(days, 365)
                 remaining_days == U32Mod(days, 365)
                 month == (remaining_days + 15) \div 30
             IN  Some(CVDuration(year, month))
        ELSE None

\* the set of elements of a Vec
Range(seq) == { seq[i] : i \in 1..Len(seq) }

\* CVEntry::extract_skills_duration: every skill of every retained category,
\* collected into a HashMap with the entry's own chrono Duration
CVEntry_extract_skills_duration(self, t) ==
    IF IsSome(self.description)
    THEN LET sk == EntryDescription_extract_skills(Unwrap(self.description))
         IN  [category \in DOMAIN sk |->
                 [s \in Range(sk[category]) |->
                     UnwrapOr(CVEntry_duration(self, t), 0)]]
    ELSE EmptyMap

(***************************************************************************)
(* add_skillsets and the aggregation over subentries (lib.rs 118-171)      *)
(***************************************************************************)
\* the loop of lines 165-169 over the skills of one category of other,
\* inserting the duration instead of adding it to a skill already present
RECURSIVE add_category_skills_overwrite(_, _, _)
add_category_skills_overwrite(cat, category_skills, todo) ==
    IF todo = {} THEN cat
    ELSE LET skill == CHOOSE x \in todo : TRUE
             duration == category_skills[skill]
         IN  add_category_skills_overwrite((skill :> duration) @@ cat,
                                           category_skills, todo \ {skill})

\* the loop of lines 165-169 over the skills todo of one category of other:
\* cat.entry(skill).and_modify(|d| *d = *d + duration).or_insert(duration)
RECURSIVE add_category_skills(_, _, _)
add_category_skills(cat, category_skills, todo) ==
    IF todo = {} THEN cat
    ELSE LET skill == CHOOSE x \in todo : TRUE
             duration == category_skills[skill]
             modified == IF skill \in DOMAIN cat
                         THEN (skill :> (cat[skill] + duration)) @@ cat
                         ELSE (skill :> duration) @@ cat
         IN  add_category_skills(modified, category_skills, todo \ {skill})

\* the loop of lines 163-170 inserting each category of other into acc in
\* place of the category acc has
RECURSIVE add_skillsets_loop_replace(_, _, _)
add_skillsets_loop_replace(acc, other, todo) ==
    IF todo = {} THEN acc
    ELSE LET category == CHOOSE x \in todo : TRUE
         IN  add_skillsets_loop_replace((category :> other[category]) @@ acc,
                                        other, todo \ {category})

\* the loop of lines 163-170 over the categories todo of other
RECURSIVE add_skillsets_loop(_, _, _)
add_skillsets_loop(acc, other, todo) ==
    IF todo = {} THEN acc
    ELSE LET category == CHOOSE x \in todo : TRUE
             cat == IF category \in DOMAIN acc THEN acc[category] ELSE EmptyMap
             filled == add_category_skills(cat, other[category], DOMAIN other[category])
         IN  add_skillsets_loop((category :> filled) @@ acc, other, todo \ {category})

\* add_skillsets: the value of acc after the call
add_skillsets(acc, other) == add_skillsets_loop(acc, other, DOMAIN other)

\* CVEntry::extract_subentries_skills; SubentriesFold is its fold over
\* subentries[i..]
RECURSIVE CVEntry_extract_subentries_skills(_, _)
RECURSIVE SubentriesFold(_, _, _, _)
SubentriesFold(acc, subentries, i, t) ==
    IF i > Len(subentries) THEN acc
    ELSE SubentriesFold(
             add_skillsets(acc, CVEntry_extract_subentries_skills(subentries[i], t)),
             subentries, i + 1, t)

CVEntry_extract_subentries_skills(self, t) ==
    SubentriesFold(CVEntry_extract_skills_duration(self, t), self.subentries, 1, t)

(***************************************************************************)
(* Curriculum (lib.rs 226-315)                                             *)
(***************************************************************************)
Curriculum(personal_data, education, experiences, languages) ==
    [personal_data |-> personal_data, education |-> education,
     experiences |-> experiences, languages |-> languages]

\* the loop of lines 307-310 over skills[i..] of one category
RECURSIVE get_skills_category(_, _, _, _)
get_skills_category(ret_categ, category_skills, i, duration) ==
    IF i > Len(category_skills) THEN ret_categ
    ELSE LET skill == category_skills[i]
             s == IF skill \in DOMAIN ret_categ THEN ret_categ[skill]
                  ELSE CVDuration_default
         IN  get_skills_category((skill :> CVDuration_add(s, duration)) @@ ret_categ,
                                 category_skills, i + 1, duration)

\* the loop of lines 305-311 over the categories todo of entry_skills
RECURSIVE get_skills_entry(_, _, _, _)
get_skills_entry(ret_skills, entry_skills, todo, duration) ==
    IF todo = {} THEN ret_skills
    ELSE LET categ == CHOOSE x \in todo : TRUE
             ret_categ == IF categ \in DOMAIN ret_skills THEN ret_skills[categ]
                          ELSE EmptyMap
             filled == get_skills_category(ret_categ, entry_skills[categ], 1, duration)
         IN  get_skills_entry((categ :> filled) @@ ret_skills, entry_skills,
                              todo \ {categ}, duration)

\* the loop of lines 302-312 over experiences[i..]
RECURSIVE get_skills_loop(_, _, _, _)
get_skills_loop(ret_skills, experiences, i, t) ==
    IF i > Len(experiences) THEN ret_skills
    ELSE LET xp == experiences[i]
             duration == UnwrapOr(CVEntry_cv_duration(xp, t), CVDuration_default)
             entry_skills == CVEntry_extract_skills(xp)
         IN  get_skills_loop(
                 get_skills_entry(ret_skills, entry_skills, DOMAIN entry_skills, duration),
                 experiences, i + 1, t)

\* Curriculum::get_skills
Curriculum_get_skills(self, t) == get_skills_loop(EmptyMap, self.experiences, 1, t)

\* str::split(c): the pieces between the occurrences of the character c
RECURSIVE split(_, _)
split(s, c) ==
    LET at == { i \in 1..Len(s) : s[i] = c }
    IN  IF at = {} THEN <<s>>
        ELSE LET i == CHOOSE j \in at : \A k \in at : j <= k
             IN  <<SubSeq(s, 1, i - 1)>> \o split(SubSeq(s, i + 1, Len(s)), c)

\* PersonalData::to_latex
PersonalData_to_latex(self) ==
    LET names == split(self.name, " ")
        first_name == names[1]
        Social(lit, o) == IF IsSome(o) THEN <<lit \o Unwrap(o) \o LIT_close>> ELSE <<>>
        lines ==
            <<LIT_personal_data, LIT_firstname \o first_name \o LIT_close>>
            \o <<IF Len(names) >= 2
                 THEN LIT_familyname \o names[2] \o LIT_close
                 ELSE LIT_familyname_empty>>
            \o Social(LIT_title, self.title)
            \o [i \in 1..Len(self.mobile) |-> LIT_mobile \o self.mobile[i] \o LIT_close]
            \o [i \in 1..Len(self.email) |-> LIT_email \o self.email[i].mail \o LIT_close]
            \o Social(LIT_social_github, self.github)
            \o Social(LIT_social_gitlab, self.gitlab)
            \o Social(LIT_social_linkedin, self.linkedin)
            \o Social(LIT_social_twitter, self.twitter)
            \o [i \in 1..Len(self.webpage) |->
                   LIT_extrainfo \o self.webpage[i][1] \o LIT_url
                   \o self.webpage[i][2] \o LIT_close2]
    IN  Join(lines, LIT_newline)

\* CVLanguage::to_latex
CVLanguage_to_latex(self) ==
    LIT_cvlanguage \o self.language \o LIT_sep \o self.level \o LIT_sep
    \o self.comment \o LIT_close

\* the pushes of one loop of Curriculum::to_latex: each rendered item, then "\n"
PushEach(rendered) ==
    [i \in 1..(2 * Len(rendered)) |->
        IF i % 2 = 1 THEN rendered[(i + 1) \div 2] ELSE LIT_newline]

\* Curriculum::to_latex with the education and the experience loops exchanged
Curriculum_to_latex_experience_first(self) ==
    LET output ==
            <<PREAMBULE, PersonalData_to_latex(self.personal_data),
              LIT_begin_document, LIT_maketitle>>
            \o <<LIT_section_education>>
            \o PushEach([i \in 1..Len(self.experiences) |->
                            CVEntry_to_latex(self.experiences[i])])
            \o <<LIT_section_experience>>
            \o PushEach([i \in 1..Len(self.education) |->
                            CVEntry_to_latex(self.education[i])])
            \o <<LIT_section_languages>>
            \o PushEach([i \in 1..Len(self.languages) |->
                            CVLanguage_to_latex(self.languages[i])])
            \o <<LIT_end_document>>
    IN  Join(output, LIT_newline)

\* Curriculum::to_latex (the value inside Ok: the preamble is valid UTF-8)
Curriculum_to_latex(self) ==
    LET output ==
            <<PREAMBULE, PersonalData_to_latex(self.personal_data),
              LIT_begin_document, LIT_maketitle>>
            \o <<LIT_section_education>>
            \o PushEach([i \in 1..Len(self.education) |->
                            CVEntry_to_latex(self.education[i])])
            \o <<LIT_section_experience>>
            \o PushEach([i \in 1..Len(self.experiences) |->
                            CVEntry_to_latex(self.experiences[i])])
            \o <<LIT_section_languages>>
            \o PushEach([i \in 1..Len(self.languages) |->
                            CVLanguage_to_latex(self.languages[i])])
            \o <<LIT_end_document>>
    IN  Join(output, LIT_newline)

(***************************************************************************)
(* Inputs of the model                                                     *)
(***************************************************************************)
\* the DateTime deserialized from the date string of year y and month m
Date(y, m) == cv_date_deserialize(Some(<<y, m>>))

\* texts of the free-text fields and skill names
T_a == <<"a">>
T_b == <<"b">>
T_open == <<"{">>
T_git == <<"g", "i", "t">>
T_gitlab == <<"g", "i", "t", "l", "a", "b">>
T_azure == <<"a", "z", "u", "r", "e">>

\* the "%Y-%m" dates of the input, and None for an absent date
ModelYears == {2013, 2022, 2023}
OptDateStrings == {None} \cup { Some(<<y, m>>) : y \in ModelYears, m \in 1..12 }

\* readings of Utc::now()
Nows == { with_ymd_and_hms(2023, 6, 15, 12, 0, 0),
          with_ymd_and_hms(2023, 12, 20, 23, 59, 59) }

D_ci_git == EntryDescription(T_a, <<>>, <<>>, <<>>, <<>>, <<T_git, T_gitlab>>, <<>>)

\* entries that differ in their dates
DatedEntries ==
    { CVEntry(cv_date_deserialize(b), cv_date_deserialize(e),
              T_a, T_b, None, None, Some(D_ci_git), <<>>) :
        b \in OptDateStrings, e \in OptDateStrings }

\* entries that differ in their description
SkillLists == { <<>>, <<T_git>>, <<T_git, T_azure>> }

DescribedEntries ==
    { CVEntry(cv_date_deserialize(Some(<<2023, 10>>)), None, T_a, T_b,
              Some(T_a), None, None, <<>>) }
    \cup
    { CVEntry(cv_date_deserialize(Some(<<2023, 10>>)), None, T_a, T_b,
              Some(T_a), None,
              Some(EntryDescription(T_a, pr, ve, db0, cl, ci, ot)), <<>>) :
        pr \in SkillLists, ve \in SkillLists, db0 \in SkillLists,
        cl \in SkillLists, ci \in SkillLists, ot \in SkillLists }

\* the entries the nodes of a tree are taken from (their subentries are
\* replaced): no dates and no description; ongoing with skills; closed with
\* skills in two categories; zero duration with a brace in its title
NodeKinds ==
    { CVEntry(None, None, T_a, <<>>, None, None, None, <<>>),
      CVEntry(cv_date_deserialize(Some(<<2022, 10>>)), None, T_a, T_b, None, None,
              Some(EntryDescription(T_a, <<>>, <<>>, <<>>, <<>>, <<T_git>>, <<>>)), <<>>),
      CVEntry(cv_date_deserialize(Some(<<2022, 9>>)), cv_date_deserialize(Some(<<2023, 7>>)),
              T_a, T_b, Some(T_a), Some(T_b),
              Some(EntryDescription(<<>>, <<T_azure>>, <<>>, <<>>, <<T_azure>>,
                                    <<T_git, T_gitlab>>, <<>>)), <<>>),
      CVEntry(cv_date_deserialize(Some(<<2023, 10>>)), cv_date_deserialize(Some(<<2023, 10>>)),
              T_open, T_b, None, None,
              Some(EntryDescription(T_b, <<>>, <<T_git>>, <<>>, <<>>, <<>>, <<>>)), <<>>) }

\* the entry trees of exactly n nodes, and the lists of trees of n nodes in all
RECURSIVE TreesOfSize(_)
RECURSIVE ForestsOfSize(_)
TreesOfSize(n) ==
    { [k EXCEPT !.subentries = f] : k \in NodeKinds, f \in ForestsOfSize(n - 1) }

ForestsOfSize(n) ==
    IF n = 0 THEN { <<>> }
    ELSE UNION { { <<t>> \o f : t \in TreesOfSize(k), f \in ForestsOfSize(n - k) } :
                 k \in 1..n }

Trees == UNION { TreesOfSize(n) : n \in 1..MaxNodes }

EntryInputs == DatedEntries \cup DescribedEntries \cup Trees

\* the skill sets given to add_skillsets: two categories, the first NumSkills
\* skill names, chrono Durations of 0..MaxDays days
SkillNames == { <<T_git, T_azure, T_gitlab, T_a, T_b>>[i] : i \in 1..NumSkills }
DurationValues == { d * SecondsPerDay : d \in 0..MaxDays }
SkillMaps ==
    UNION { [present -> DurationValues] : present \in SUBSET SkillNames }
SkillSets ==
    UNION { [present -> SkillMaps] : present \in SUBSET {CAT_CI, CAT_CLOUD} }

\* struct PersonalData and struct CVLanguage (lib.rs 335-351, 394-401)
PersonalData(name, title, mobile, email, github, gitlab, twitter, linkedin, webpage) ==
    [name |-> name, title |-> title, mobile |-> mobile, email |-> email,
     github |-> github, gitlab |-> gitlab, twitter |-> twitter,
     linkedin |-> linkedin, webpage |-> webpage]

CVLanguage(language, level, comment) ==
    [language |-> language, level |-> level, comment |-> comment]

\* struct CVEmail (lib.rs 317-322)
CVEmail(name, mail) == [name |-> name, mail |-> mail]

P_a == PersonalData(T_a, None, <<>>, <<>>, None, None, None, None, <<>>)
\* a person with two names and every contact field
P_full ==
    PersonalData(T_a \o <<" ">> \o T_b, Some(T_b), <<T_a, T_b>>,
                 <<CVEmail(None, T_a), CVEmail(Some(T_a), T_b)>>,
                 Some(T_git), Some(T_gitlab), Some(T_a), Some(T_b),
                 <<<<T_a, T_b>>>>)
L_a == CVLanguage(T_a, T_b, <<>>)
L_b == CVLanguage(T_b, <<>>, T_a)

\* the experiences of the curricula: the two of the test get_cv_skills; one
\* of zero duration; one without beginning; one without description whose
\* skills are in a subentry and in a subentry of that subentry; one that
\* lists a skill twice; one without description
X_first ==
    CVEntry(Date(2022, 10), Date(2023, 11), <<>>, <<>>, Some(T_a), None,
            Some(EntryDescription(T_a, <<>>, <<>>, <<>>, <<>>, <<T_git, T_gitlab>>, <<>>)),
            <<>>)
X_second ==
    CVEntry(Date(2022, 9), Date(2023, 7), <<>>, <<>>, Some(T_a), None,
            Some(EntryDescription(T_a, <<>>, <<>>, <<>>, <<T_azure>>, <<T_git, T_gitlab>>, <<>>)),
            <<>>)
X_zero ==
    CVEntry(Date(2023, 10), Date(2023, 10), T_a, T_b, None, None,
            Some(EntryDescription(T_a, <<>>, <<T_git>>, <<>>, <<>>, <<>>, <<>>)), <<>>)
X_undated ==
    CVEntry(None, Date(2023, 10), T_a, T_b, None, None,
            Some(EntryDescription(T_a, <<>>, <<>>, <<>>, <<>>, <<T_azure>>, <<>>)), <<>>)
X_leaf ==
    CVEntry(Date(2022, 1), Date(2022, 7), T_a, <<>>, None, None,
            Some(EntryDescription(T_a, <<>>, <<>>, <<>>, <<>>, <<>>, <<T_azure>>)), <<>>)
X_inner ==
    CVEntry(Date(2022, 1), Date(2023, 1), T_a, <<>>, None, None,
            Some(EntryDescription(T_a, <<>>, <<>>, <<T_gitlab>>, <<>>, <<>>, <<>>)),
            <<X_leaf>>)
X_nested ==
    CVEntry(Date(2013, 10), None, T_a, T_b, None, None, None, <<X_inner>>)
X_twice ==
    CVEntry(Date(2022, 10), Date(2023, 11), T_a, T_b, None, None,
            Some(EntryDescription(T_a, <<>>, <<>>, <<>>, <<>>, <<T_git, T_git>>, <<>>)), <<>>)
X_bare ==
    CVEntry(Date(2022, 10), Date(2023, 11), T_a, T_b, None, None, None, <<>>)

ExperienceKinds ==
    {X_first, X_second, X_zero, X_undated, X_nested, X_twice, X_bare}

\* the sequences of at most n elements of S
RECURSIVE SeqsUpTo(_, _)
SeqsUpTo(S, n) ==
    IF n = 0 THEN { <<>> }
    ELSE { <<>> } \cup { <<x>> \o r : x \in S, r \in SeqsUpTo(S, n - 1) }

\* the curricula of the skill totals, and the curricula of the documents
SkillCurricula ==
    { Curriculum(P_a, <<>>, xs, <<>>) : xs \in SeqsUpTo(ExperienceKinds, MaxExperiences) }
DocumentCurricula ==
    { Curriculum(p, edu, xs, ls) :
        p \in {P_a, P_full},
        edu \in SeqsUpTo({X_zero, X_bare}, MaxItems),
        xs \in SeqsUpTo({X_first, X_nested}, MaxItems),
        ls \in SeqsUpTo({L_a, L_b}, MaxItems) }
Curricula == SkillCurricula \cup DocumentCurricula

\* number of nodes and depth of an entry tree
RECURSIVE NodeCount(_)
NodeCount(e) ==
    LET RECURSIVE Sum(_)
        Sum(i) == IF i > Len(e.subentries) THEN 0
                  ELSE NodeCount(e.subentries[i]) + Sum(i + 1)
    IN  1 + Sum(1)

RECURSIVE Depth(_)
Depth(e) ==
    LET RECURSIVE Deepest(_)
        Deepest(i) == IF i > Len(e.subentries) THEN 0
                      ELSE LET d == Depth(e.subentries[i])
                               r == Deepest(i + 1)
                           IN  IF d > r THEN d ELSE r
    IN  1 + Deepest(1)

\* the CVDuration operands the model draws
Durations == { CVDuration(y, m) : y \in 0..MaxYear, m \in 0..MaxMonth }

\* total number of months of a CVDuration
TotalMonths(d) == 12 * d.year + d.month

(***************************************************************************)
(* Specification of the CVDuration operations                              *)
(***************************************************************************)
\* the variables of the specifications that are not running
IdleDuration ==
    /\ da = CVDuration_default
    /\ db = CVDuration_default
    /\ dc = CVDuration_default
    /\ dop = "none"
    /\ dres = CVDuration_default

IdleEntry ==
    /\ entry = CVEntry(None, None, <<>>, <<>>, None, None, None, <<>>)
    /\ eop = "none"
    /\ tex = <<>>
    /\ elapsed = None
    /\ skills = EmptyMap
    /\ subtree = EmptyMap

IdleSkillsets ==
    /\ acc_in = EmptyMap
    /\ other_in = EmptyMap
    /\ acc_out = EmptyMap
    /\ merged = FALSE

IdleCurriculum ==
    /\ cv = Curriculum(P_a, <<>>, <<>>, <<>>)
    /\ cop = "none"
    /\ got_skills = EmptyMap
    /\ doc = <<>>

InitDuration ==
    /\ da \in Durations
    /\ db \in Durations
    /\ dc \in Durations
    /\ dop = "none"
    /\ dres = CVDuration_default
    /\ now = 0
    /\ IdleEntry /\ IdleSkillsets /\ IdleCurriculum

\* da + db
CallAdd ==
    /\ dop = "none"
    /\ dop' = "add"
    /\ dres' = CVDuration_add(da, db)
    /\ UNCHANGED <<da, db, dc, now, evars, svars, cvars>>

\* da.round()
CallRound ==
    /\ dop = "none"
    /\ dop' = "round"
    /\ dres' = CVDuration_round(da)
    /\ UNCHANGED <<da, db, dc, now, evars, svars, cvars>>

NextDuration == CallAdd \/ CallRound

SpecDuration == InitDuration /\ [][NextDuration]_vars

(***************************************************************************)
(* Specification of the CVEntry methods                                    *)
(***************************************************************************)
InitEntry ==
    /\ entry \in EntryInputs
    /\ now \in Nows
    /\ eop = "none"
    /\ tex = <<>>
    /\ elapsed = None
    /\ skills = EmptyMap
    /\ subtree = EmptyMap
    /\ IdleDuration /\ IdleSkillsets /\ IdleCurriculum

\* entry.to_latex()
CallToLatex ==
    /\ eop = "none"
    /\ eop' = "to_latex"
    /\ tex' = CVEntry_to_latex(entry)
    /\ UNCHANGED <<entry, now, elapsed, skills, subtree, dvars, svars, cvars>>

\* entry.cv_duration()
CallCvDuration ==
    /\ eop = "none"
    /\ eop' = "cv_duration"
    /\ elapsed' = CVEntry_cv_duration(entry, now)
    /\ UNCHANGED <<entry, now, tex, skills, subtree, dvars, svars, cvars>>

\* entry.extract_skills()
CallExtractSkills ==
    /\ eop = "none"
    /\ eop' = "extract_skills"
    /\ skills' = CVEntry_extract_skills(entry)
    /\ UNCHANGED <<entry, now, tex, elapsed, subtree, dvars, svars, cvars>>

\* entry.extract_subentries_skills()
CallExtractSubentriesSkills ==
    /\ eop = "none"
    /\ eop' = "extract_subentries_skills"
    /\ subtree' = CVEntry_extract_subentries_skills(entry, now)
    /\ UNCHANGED <<entry, now, tex, elapsed, skills, dvars, svars, cvars>>

\* entry.description.to_latex(), for an entry that has a description
CallDescriptionToLatex ==
    /\ eop = "none"
    /\ IsSome(entry.description)
    /\ eop' = "description_to_latex"
    /\ tex' = EntryDescription_to_latex(Unwrap(entry.description))
    /\ UNCHANGED <<entry, now, elapsed, skills, subtree, dvars, svars, cvars>>

NextEntry ==
    \/ CallToLatex
    \/ CallDescriptionToLatex
    \/ CallCvDuration
    \/ CallExtractSkills
    \/ CallExtractSubentriesSkills

SpecEntry == InitEntry /\ [][NextEntry]_vars

(***************************************************************************)
(* Specification of add_skillsets                                          *)
(***************************************************************************)
InitSkillsets ==
    /\ acc_in \in SkillSets
    /\ other_in \in SkillSets
    /\ acc_out = acc_in
    /\ merged = FALSE
    /\ now = 0
    /\ IdleDuration /\ IdleEntry /\ IdleCurriculum

\* add_skillsets(&mut acc, other)
CallAddSkillsets ==
    /\ ~merged
    /\ merged' = TRUE
    /\ acc_out' = add_skillsets(acc_out, other_in)
    /\ UNCHANGED <<acc_in, other_in, now, dvars, evars, cvars>>

NextSkillsets == CallAddSkillsets

SpecSkillsets == InitSkillsets /\ [][NextSkillsets]_vars

(***************************************************************************)
(* Specification of the Curriculum methods                                 *)
(***************************************************************************)
InitCurriculum ==
    /\ cv \in Curricula
    /\ now \in Nows
    /\ cop = "none"
    /\ got_skills = EmptyMap
    /\ doc = <<>>
    /\ IdleDuration /\ IdleEntry /\ IdleSkillsets

\* cv.get_skills()
CallGetSkills ==
    /\ cop = "none"
    /\ cop' = "get_skills"
    /\ got_skills' = Curriculum_get_skills(cv, now)
    /\ UNCHANGED <<cv, doc, now, dvars, evars, svars>>

\* cv.to_latex()
CallCurriculumToLatex ==
    /\ cop = "none"
    /\ cop' = "to_latex"
    /\ doc' = Curriculum_to_latex(cv)
    /\ UNCHANGED <<cv, got_skills, now, dvars, evars, svars>>

NextCurriculum == CallGetSkills \/ CallCurriculumToLatex

SpecCurriculum == InitCurriculum /\ [][NextCurriculum]_vars

(***************************************************************************)
(* Properties of the CVDuration operations                                 *)
(***************************************************************************)
\* C4: CVDuration addition is commutative and associative, also on operands
\* whose month component is 12 or more: the sum da + db that was returned
\* equals db + da, and (da + db) + dc equals da + (db + dc).
C4_AddCommutativeAssociative ==
    dop = "add" =>
        /\ dres = CVDuration_add(db, da)
        /\ CVDuration_add(dres, dc) = CVDuration_add(da, CVDuration_add(db, dc))

\* an addition of three distinct operands, two of them unnormalized, whose
\* months carry more than one year
C4_Witness ==
    /\ dop = "add"
    /\ da.month >= 12 /\ db.month >= 12 /\ dc.month > 0
    /\ da # db /\ db # dc /\ da # dc
    /\ da.month + db.month + dc.month >= 24

\* C5: da + db is {da.year + db.year + (da.month + db.month) div 12,
\* (da.month + db.month) mod 12}, for unnormalized operands too; so the
\* month of the sum is in 0..11 and the total number of months is the sum
\* of the operands' totals.
C5_AddNormalizes ==
    dop = "add" =>
        LET m == da.month + db.month
        IN  /\ dres = CVDuration(da.year + db.year + (m \div 12), m % 12)
            /\ dres.month \in 0..11
            /\ TotalMonths(dres) = TotalMonths(da) + TotalMonths(db)

\* an addition whose operands are both unnormalized and carry two years
C5_Witness ==
    /\ dop = "add"
    /\ da.month > 11 /\ db.month > 11
    /\ da.month + db.month >= 24
    /\ dres.year = da.year + db.year + 2

\* C6: round() returns its operand when year = 0 and month <= 10, and
\* otherwise the nearest whole year, 6 months rounding up: the result has
\* month 0 and its year y satisfies -5 <= 12*y - (12*year + month) <= 6.
C6_RoundNearestYear ==
    dop = "round" =>
        /\ IF da.year = 0 /\ da.month <= 10
           THEN dres = da
           ELSE /\ dres.month = 0
                /\ 12 * dres.year - TotalMonths(da) \in -5..6
                /\ dres.year = (12 * da.year + da.month + 6) \div 12
        /\ da = CVDuration(3, 3) => dres = CVDuration(3, 0)
        /\ da = CVDuration(3, 5) => dres = CVDuration(3, 0)
        /\ da = CVDuration(3, 6) => dres = CVDuration(4, 0)
        /\ da = CVDuration(3, 7) => dres = CVDuration(4, 0)
        /\ da = CVDuration(3, 9) => dres = CVDuration(4, 0)
        /\ da = CVDuration(0, 10) => dres = CVDuration(0, 10)
        /\ da = CVDuration(0, 11) => dres = CVDuration(1, 0)

\* a rounding of exactly 3 years and 6 months, which goes up
C6_Witness ==
    /\ dop = "round"
    /\ da = CVDuration(3, 6)
    /\ dres = CVDuration(4, 0)

(***************************************************************************)
(* Properties of the CVEntry methods                                       *)
(***************************************************************************)
\* the span of the entry to its end, or to now when it has no end, in seconds
SpanSeconds ==
    (IF IsSome(entry.end) THEN Unwrap(entry.end) ELSE now) - Unwrap(entry.beginning)

\* C7: an entry with a beginning whose span to its end (to now without an
\* end) is d >= 0 whole days has cv_duration {d div 365, ((d mod 365) + 15)
\* div 30}; an entry without beginning has none, with or without an end.
C7_ElapsedFormula ==
    eop = "cv_duration" =>
        /\ ~IsSome(entry.beginning) => elapsed = None
        /\ (IsSome(entry.beginning) /\ SpanSeconds >= 0) =>
              LET d == SpanSeconds \div 86400
              IN  elapsed = Some(CVDuration(d \div 365, ((d % 365) + 15) \div 30))
        /\ (entry.beginning = Date(2023, 10) /\ entry.end = Date(2023, 12))
              => elapsed = Some(CVDuration(0, 2))
        /\ (entry.beginning = Date(2013, 10) /\ entry.end = Date(2023, 12))
              => elapsed = Some(CVDuration(10, 2))
        /\ (entry.beginning = Date(2023, 10) /\ entry.end = Date(2023, 10))
              => elapsed = Some(CVDuration(0, 0))

\* the duration of an ongoing entry, measured against now in the middle of
\* a day
C7_Witness ==
    /\ eop = "cv_duration"
    /\ entry.beginning = Date(2013, 10)
    /\ entry.end = None
    /\ SpanSeconds % 86400 # 0
    /\ elapsed = Some(CVDuration(9, 9))

\* C8: for an entry whose end is earlier than its beginning cv_duration
\* returns a duration that is negative or zero, never a positive one.
C8_EndBeforeBeginningNotPositive ==
    (/\ eop = "cv_duration"
     /\ IsSome(entry.beginning) /\ IsSome(entry.end)
     /\ Unwrap(entry.end) < Unwrap(entry.beginning))
        => (IsSome(elapsed) =>
              Unwrap(elapsed).year <= 0 /\ Unwrap(elapsed).month <= 0)

\* the six category labels of the glossary
SixLabels ==
    {CAT_PROGRAMMING, CAT_VERSION, CAT_DATABASE, CAT_CLOUD, CAT_CI, CAT_OTHER}

\* the list of the description d that belongs to a label
ListOf(d, label) ==
    CASE label = CAT_PROGRAMMING -> d.programming
      [] label = CAT_VERSION -> d.version
      [] label = CAT_DATABASE -> d.database
      [] label = CAT_CLOUD -> d.cloud
      [] label = CAT_CI -> d.ci
      [] label = CAT_OTHER -> d.other

\* C9: extract_skills returns a mapping whose keys are exactly the labels,
\* among the six, whose list in the description is non-empty, each mapped to
\* that list; without description the mapping is empty.
C9_ExtractNonEmptyCategories ==
    eop = "extract_skills" =>
        IF IsSome(entry.description)
        THEN LET d == Unwrap(entry.description)
             IN  /\ DOMAIN skills = { c \in SixLabels : ListOf(d, c) # <<>> }
                 /\ \A c \in DOMAIN skills : skills[c] = ListOf(d, c)
        ELSE DOMAIN skills = {}

\* a description with some lists empty and others not
C9_Witness ==
    /\ eop = "extract_skills"
    /\ IsSome(entry.description)
    /\ Unwrap(entry.description).programming = <<T_git, T_azure>>
    /\ Unwrap(entry.description).version = <<>>
    /\ Unwrap(entry.description).other = <<T_git>>
    /\ CAT_PROGRAMMING \in DOMAIN skills
    /\ CAT_VERSION \notin DOMAIN skills
    /\ Cardinality(DOMAIN skills) < 6

\* C1: the text returned by to_latex has as many '{' as '}', for every
\* entry tree and every value of its fields.
C1_BraceBalance ==
    eop = "to_latex" => CountChar(tex, "{") = CountChar(tex, "}")

(***************************************************************************)
(* Properties of add_skillsets                                             *)
(***************************************************************************)
\* the skill set m has the pair (category c, skill s)
HasPair(m, c, s) == c \in DOMAIN m /\ s \in DOMAIN m[c]

\* C10: add_skillsets adds: after merging other into acc, a pair present in
\* both holds the sum of the two durations, a pair present in one of them
\* holds that one's duration, and every pair of acc is still there; merging
\* a skill set into itself doubles every duration.
C10_MergeAdditive ==
    merged =>
        /\ \A c \in DOMAIN acc_in \cup DOMAIN other_in \cup DOMAIN acc_out :
           \A s \in SkillNames :
              /\ (HasPair(acc_in, c, s) /\ HasPair(other_in, c, s)) =>
                    (HasPair(acc_out, c, s)
                     /\ acc_out[c][s] = acc_in[c][s] + other_in[c][s])
              /\ (HasPair(acc_in, c, s) /\ ~HasPair(other_in, c, s)) =>
                    (HasPair(acc_out, c, s) /\ acc_out[c][s] = acc_in[c][s])
              /\ (~HasPair(acc_in, c, s) /\ HasPair(other_in, c, s)) =>
                    (HasPair(acc_out, c, s) /\ acc_out[c][s] = other_in[c][s])
        /\ other_in = acc_in =>
              \A c \in DOMAIN acc_in : \A s \in DOMAIN acc_in[c] :
                  acc_out[c][s] = 2 * acc_in[c][s]

\* a merge with a pair of non-zero duration on both sides, a pair only in acc
\* and a pair only in other
C10_Witness ==
    /\ merged
    /\ HasPair(acc_in, CAT_CI, T_git) /\ HasPair(other_in, CAT_CI, T_git)
    /\ acc_in[CAT_CI][T_git] > 0 /\ other_in[CAT_CI][T_git] > 0
    /\ acc_out[CAT_CI][T_git] = 2 * SecondsPerDay
    /\ HasPair(acc_in, CAT_CI, T_azure) /\ ~HasPair(other_in, CAT_CI, T_azure)
    /\ ~HasPair(acc_in, CAT_CLOUD, T_git) /\ HasPair(other_in, CAT_CLOUD, T_git)

(***************************************************************************)
(* Properties of Curriculum::get_skills                                    *)
(***************************************************************************)
\* the entries nested below e, at any depth
RECURSIVE Descendants(_)
Descendants(e) ==
    UNION { {e.subentries[i]} \cup Descendants(e.subentries[i]) :
            i \in 1..Len(e.subentries) }

\* the cv_duration of an entry, zero when it has none
ElapsedOrZero(e) == UnwrapOr(CVEntry_cv_duration(e, now), CVDuration_default)

\* C2: get_skills aggregates the whole subtree of every experience: a pair
\* (category, skill) listed in the description of an entry nested at any
\* depth below an experience is in the result, with that entry's duration
\* accumulated into it.
C2_GetSkillsIncludesSubentries ==
    cop = "get_skills" =>
        \A i \in 1..Len(cv.experiences) :
          \A n \in Descendants(cv.experiences[i]) :
            IsSome(n.description) =>
              \A c \in SixLabels :
                \A s \in Range(ListOf(Unwrap(n.description), c)) :
                    /\ HasPair(got_skills, c, s)
                    /\ TotalMonths(got_skills[c][s]) >= TotalMonths(ElapsedOrZero(n))

\* the experiences of xs that list skill s under category c in their own
\* description
Listing(xs, c, s) ==
    { i \in 1..Len(xs) :
        /\ IsSome(xs[i].description)
        /\ s \in Range(ListOf(Unwrap(xs[i].description), c)) }

\* the CVDuration sum of the durations of the experiences of xs at indices I
RECURSIVE SumElapsed(_, _)
SumElapsed(xs, I) ==
    IF I = {} THEN CVDuration_default
    ELSE LET i == CHOOSE k \in I : \A j \in I : k <= j
         IN  CVDuration_add(ElapsedOrZero(xs[i]), SumElapsed(xs, I \ {i}))

\* the skill names of the inputs
AllSkillNames == {T_git, T_gitlab, T_azure}

\* C3: get_skills maps every pair (category, skill) that some experience
\* lists in its own description to the sum of the durations of exactly the
\* experiences listing it (zero for one without beginning or with begin =
\* end, the key being present), whatever the order of the experiences; a
\* pair that no experience lists is absent.
C3_GetSkillsSumsListingExperiences ==
    cop = "get_skills" =>
        /\ \A c \in SixLabels : \A s \in AllSkillNames :
              IF Listing(cv.experiences, c, s) = {}
              THEN ~HasPair(got_skills, c, s)
              ELSE /\ HasPair(got_skills, c, s)
                   /\ got_skills[c][s]
                        = SumElapsed(cv.experiences, Listing(cv.experiences, c, s))
        /\ \A p \in Permutations(1..Len(cv.experiences)) :
              Curriculum_get_skills(
                  [cv EXCEPT !.experiences = [i \in 1..Len(cv.experiences) |->
                                                cv.experiences[p[i]]]], now)
                = got_skills

(***************************************************************************)
(* Properties of CVEntry::extract_subentries_skills                        *)
(***************************************************************************)
\* the trees obtained from e by reordering the subentries of every node
RECURSIVE Reorderings(_)
Reorderings(e) ==
    LET n == Len(e.subentries)
        reordered == { f \in [1..n -> UNION { Reorderings(e.subentries[i]) : i \in 1..n }] :
                         \A i \in 1..n : f[i] \in Reorderings(e.subentries[i]) }
    IN  { [e EXCEPT !.subentries = [i \in 1..n |-> f[p[i]]]] :
            p \in Permutations(1..n), f \in reordered }

\* C11: extract_subentries_skills returns the same mapping category ->
\* skill -> duration for every reordering of the subentries at every node
\* of the tree (for one reading of the clock).
C11_SubtreeOrderInvariant ==
    eop = "extract_subentries_skills" =>
        \A e \in Reorderings(entry) :
            CVEntry_extract_subentries_skills(e, now) = subtree

\* a tree of depth 3 with two subentries that share the skill CI/CD:git with
\* different durations, one of them with a subentry of its own
C11_Witness ==
    /\ eop = "extract_subentries_skills"
    /\ Len(entry.subentries) = 2
    /\ Depth(entry) = 3
    /\ Cardinality(Reorderings(entry)) > 1
    /\ HasPair(CVEntry_extract_subentries_skills(entry.subentries[1], now), CAT_CI, T_git)
    /\ HasPair(CVEntry_extract_subentries_skills(entry.subentries[2], now), CAT_CI, T_git)
    /\ CVEntry_extract_subentries_skills(entry.subentries[1], now)[CAT_CI][T_git]
         # CVEntry_extract_subentries_skills(entry.subentries[2], now)[CAT_CI][T_git]
    /\ HasPair(subtree, CAT_CI, T_git)

(***************************************************************************)
(* Properties of the rendering of an entry tree                            *)
(***************************************************************************)
\* the positions where pat occurs in s, and their number
Occurrences(s, pat) ==
    { i \in 1..(Len(s) - Len(pat) + 1) : SubSeq(s, i, i + Len(pat) - 1) = pat }

CountSub(s, pat) == Cardinality(Occurrences(s, pat))

\* the record marker \cventry
Marker == SubSeq(LIT_cventry, 1, 8)

\* the free texts of one entry: its fields, its context and its skill names
EntryTexts(e) ==
    {e.degree, e.institution, UnwrapOr(e.city, <<>>), UnwrapOr(e.grade, <<>>)}
    \cup (IF IsSome(e.description)
          THEN {Unwrap(e.description).context}
               \cup UNION { Range(ListOf(Unwrap(e.description), c)) : c \in SixLabels }
          ELSE {})

\* no text of the tree e holds a backslash
NoBackslash(e) ==
    \A n \in {e} \cup Descendants(e) : \A t \in EntryTexts(n) : CountChar(t, "\\") = 0

\* C12: the text rendered for an entry with N subentries holds at least
\* N + 1 markers \cventry, and the text of a tree at least one per node
\* (exactly one per node when no text of the tree holds a backslash).
C12_MarkerPerNode ==
    eop = "to_latex" =>
        /\ CountSub(tex, Marker) >= Len(entry.subentries) + 1
        /\ CountSub(tex, Marker) >= NodeCount(entry)
        /\ NoBackslash(entry) => CountSub(tex, Marker) = NodeCount(entry)

\* the rendering of a parent with three subentries
C12_Witness ==
    /\ eop = "to_latex"
    /\ Len(entry.subentries) = 3
    /\ CountSub(tex, Marker) = 4

\* the six labels in the order of the glossary
FixedOrder ==
    <<CAT_PROGRAMMING, CAT_VERSION, CAT_DATABASE, CAT_CLOUD, CAT_CI, CAT_OTHER>>

\* the list item of the description d for the label c
ItemOf(d, c) ==
    LIT_item \o c \o LIT_item_close \o Join(ListOf(d, c), LIT_comma)

\* the label c has exactly one item, with its skills, in the description
\* block when its list is not empty, and none when it is empty
OneItemIfNonEmpty(d, c) ==
    IF ListOf(d, c) # <<>>
    THEN /\ CountSub(tex, LIT_item \o c \o LIT_item_close) = 1
         /\ CountSub(tex, ItemOf(d, c)) = 1
    ELSE CountSub(tex, LIT_item \o c \o LIT_item_close) = 0

\* C14: the description block lists the categories in the fixed order
\* (programming languages, version control, database, cloud computing,
\* CI/CD, other): one labeled item with its skills for every category whose
\* list is not empty, none for a category whose list is empty.
C14_DescriptionItemsInFixedOrder ==
    eop = "description_to_latex" =>
        LET d == Unwrap(entry.description)
        IN  /\ \A k \in 1..6 : OneItemIfNonEmpty(d, FixedOrder[k])
            /\ \A j, k \in 1..6 :
                  (j < k /\ ListOf(d, FixedOrder[j]) # <<>> /\ ListOf(d, FixedOrder[k]) # <<>>)
                    => \A pj \in Occurrences(tex, ItemOf(d, FixedOrder[j])) :
                         \A pk \in Occurrences(tex, ItemOf(d, FixedOrder[k])) : pj < pk

\* the text of the margin directive for a maximum date-label length M
Directive(M) ==
    LIT_hspace
    \o (CASE M = 0 -> <<"2", "1", ".", "5">>
          [] M = 4 -> <<"1", "7", ".", "5">>
          [] M = 10 -> <<"1", "1", ".", "5">>
          [] OTHER -> Decimal(21 - M) \o <<".", "5">>)
    \o <<"e", "x", "}">>

\* the largest date-label length among the direct subentries of e
MaxChildLabel(e) ==
    LET lens == { Len(CVEntry_get_dates(e.subentries[i])) : i \in 1..Len(e.subentries) }
    IN  CHOOSE l \in lens : \A k \in lens : k <= l

\* C15: in the text of an entry with subentries the block of every direct
\* subentry is prefixed with the same directive \hspace*{-Xex}, X = 21.5 - M,
\* M the largest date-label length among the direct subentries only (not
\* the entry's own label nor those of deeper entries); a larger M gives a
\* smaller X.
C15_MarginFromDirectSiblings ==
    (eop = "to_latex" /\ entry.subentries # <<>>) =>
        LET M == MaxChildLabel(entry)
        IN  /\ M \in {0, 4, 10}
            /\ \A i \in 1..Len(entry.subentries) :
                  CountSub(tex, Directive(M) \o CVEntry_to_latex(entry.subentries[i])) >= 1
            /\ CountSub(tex, LIT_hspace)
                  = NodeCount(entry) - 1

\* an entry with a label of 10 characters whose subentries have labels of 0
\* and 4 characters, one of them with a subentry whose label has 10
C15_Witness ==
    /\ eop = "to_latex"
    /\ Len(entry.subentries) = 2
    /\ Len(CVEntry_get_dates(entry)) = 10
    /\ MaxChildLabel(entry) = 4
    /\ Len(CVEntry_get_dates(entry.subentries[2])) = 0
    /\ entry.subentries[1].subentries # <<>>
    /\ Len(CVEntry_get_dates(entry.subentries[1].subentries[1])) = 10
    /\ CountSub(tex, Directive(4)) = 2
    /\ CountSub(tex, Directive(10)) = 1

\* C16: for an entry with a beginning and a span of d >= 0 days the month
\* component of cv_duration is in 0..11.
C16_ElapsedMonthNormalized ==
    (eop = "cv_duration" /\ IsSome(entry.beginning) /\ SpanSeconds >= 0) =>
        (IsSome(elapsed) /\ Unwrap(elapsed).month \in 0..11)


\* first position from `from` on that holds no line break (Len(s) + 1 when
\* only line breaks remain)
SkipNewlines(s, from) ==
    LET stop == { i \in from..(Len(s) + 1) : i = Len(s) + 1 \/ s[i] # "\n" }
    IN  CHOOSE i \in stop : \A k \in stop : i <= k

\* the pieces lie in s from position `from` to its end, in this order, with
\* nothing but line breaks between one piece and the next
RECURSIVE Laid(_, _, _)
Laid(s, pieces, from) ==
    IF pieces = <<>> THEN from = Len(s) + 1
    ELSE LET p == SkipNewlines(s, from)
             q == p + Len(Head(pieces)) - 1
         IN  /\ q <= Len(s)
             /\ SubSeq(s, p, q) = Head(pieces)
             /\ Laid(s, Tail(pieces), q + 1)

\* the pieces of the document of a curriculum, after the preamble
DocumentPieces(c) ==
    <<PersonalData_to_latex(c.personal_data), trim(LIT_begin_document),
      LIT_maketitle, LIT_section_education>>
    \o [i \in 1..Len(c.education) |-> CVEntry_to_latex(c.education[i])]
    \o <<LIT_section_experience>>
    \o [i \in 1..Len(c.experiences) |-> CVEntry_to_latex(c.experiences[i])]
    \o <<LIT_section_languages>>
    \o [i \in 1..Len(c.languages) |-> CVLanguage_to_latex(c.languages[i])]
    \o <<LIT_end_document>>

\* C13: the document returned by to_latex starts with the preamble; then
\* come, in this order and separated by line breaks only, the personal-data
\* block, the begin-document marker with \maketitle, the education heading
\* and the education entries in input order, the experience heading and the
\* experiences in input order, the languages heading and the language
\* records in input order, and the end-document marker, which ends the
\* document: every experience lies after the last education entry and
\* before the first language record.
C13_DocumentOrder ==
    (cop = "to_latex") =>
        /\ Len(doc) >= Len(PREAMBULE)
        /\ SubSeq(doc, 1, Len(PREAMBULE)) = PREAMBULE
        /\ Laid(doc, DocumentPieces(cv), Len(PREAMBULE) + 1)

\* a rendered curriculum with every contact field, two different education
\* entries, two different experiences and two different language records
C13_Witness ==
    /\ cop = "to_latex"
    /\ cv.personal_data = P_full
    /\ Len(cv.education) = 2 /\ cv.education[1] # cv.education[2]
    /\ Len(cv.experiences) = 2 /\ cv.experiences[1] # cv.experiences[2]
    /\ Len(cv.languages) = 2 /\ cv.languages[1] # cv.languages[2]
    /\ CountSub(doc, LIT_cvlanguage) = 2
    /\ CountSub(doc, LIT_section_experience) = 1

=============================================================================
